---- MODULE Spec2Model ----
(***************************************************************************)
(* Model of uasset-rs `Archive` (src/src/archive.rs): the header protocol  *)
(* run by Archive::new over a wrapped byte source, the version comparison  *)
(* queries, and the pass-through Read/Seek implementations.                *)
(*                                                                         *)
(* The wrapped source is a byte sequence with a 0-based position.  All     *)
(* header fields are decoded from bytes (little-endian).  A u32 is kept as *)
(* a pair <<high 16 bits, low 16 bits>> because 0x9E2A83C1 does not fit    *)
(* the checker's integers; an i32 is an ordinary (two's complement) value. *)
(***************************************************************************)
EXTENDS Integers, Sequences, FiniteSets

(* ------------------------------ bounds --------------------------------- *)
MaxStreamLen == 26      \* longest source, in bytes (full -8 header is 24)
MaxReadLen == 5         \* largest buffer handed to the pass-through read

(* ------------------------- program constants --------------------------- *)
\* const PACKAGE_FILE_MAGIC: u32 = 0x9E2A83C1, as <<0x9E2A, 0x83C1>>
PACKAGE_FILE_MAGIC == <<40490, 33729>>

\* crate::enums::ObjectVersion / ObjectVersionUE5: the integer tags of the
\* members (a sample of the generated tables; the tables are external data).
ObjectVersion == {214, 215, 522}
ObjectVersionUE5 == {1000, 1001}

(* ------------------------------ Option --------------------------------- *)
None == [some |-> FALSE, val |-> 0]
Some(v) == [some |-> TRUE, val |-> v]

\* num_traits::FromPrimitive::from_i32 on the two enumerations
ObjectVersion_from_i32(v) == IF v \in ObjectVersion THEN Some(v) ELSE None
ObjectVersionUE5_from_i32(v) == IF v \in ObjectVersionUE5 THEN Some(v) ELSE None

(* ------------------------------ Error ---------------------------------- *)
NoError == [kind |-> "none", value |-> 0]
InvalidFile == [kind |-> "InvalidFile", value |-> 0]
UnsupportedVersion(v) == [kind |-> "UnsupportedVersion", value |-> v]
UnversionedAsset == [kind |-> "UnversionedAsset", value |-> 0]
UnsupportedUE4Version(v) == [kind |-> "UnsupportedUE4Version", value |-> v]
UnsupportedUE5Version(v) == [kind |-> "UnsupportedUE5Version", value |-> v]
\* From<binread::Error>: every failed read_le becomes ParseError
ParseError == [kind |-> "ParseError", value |-> 0]
ErrorKinds == {"InvalidFile", "UnsupportedVersion", "UnversionedAsset",
               "UnsupportedUE4Version", "UnsupportedUE5Version",
               "ParseError", "IoError"}

(* ------------------------- reading the source -------------------------- *)
\* a read_le of a 4-byte integer succeeds iff 4 bytes remain
can_read_le(r) == Len(r.bytes) - r.pos >= 4
byte_at(r, i) == r.bytes[r.pos + 1 + i]
\* reader.read_le::<u32>()
read_le_u32(r) == << byte_at(r, 3) * 256 + byte_at(r, 2),
                     byte_at(r, 1) * 256 + byte_at(r, 0) >>
\* reader.read_le::<i32>()
read_le_i32(r) ==
    LET b3 == byte_at(r, 3)
        top == IF b3 >= 128 THEN b3 - 256 ELSE b3
    IN  top * 16777216 + byte_at(r, 2) * 65536 + byte_at(r, 1) * 256 + byte_at(r, 0)
\* the source after a successful 4-byte read
advance(r) == [r EXCEPT !.pos = @ + 4]

(* --------------------------- Archive::new ------------------------------ *)
NoArchive == [file_version |-> 0, file_version_ue5 |-> None,
              file_licensee_version |-> 0, legacy_version |-> 0]

magic_matches_M(magic) == magic[2] = PACKAGE_FILE_MAGIC[2]
magic_matches(magic) == magic = PACKAGE_FILE_MAGIC

legacy_supported_M(legacy_version) == legacy_version \in (-8)..(-5)
legacy_supported_M2(legacy_version) == legacy_version \in (-9)..(-6)
legacy_supported(legacy_version) == legacy_version \in (-8)..(-6)

has_ue5_field_M(legacy_version) == legacy_version <= -7
has_ue5_field(legacy_version) == legacy_version <= -8

is_unversioned_M(file_version, file_licensee_version, file_version_ue5) ==
    file_version = 0 /\ file_licensee_version = 0
is_unversioned(file_version, file_licensee_version, file_version_ue5) ==
    file_version = 0 /\ file_licensee_version = 0 /\ file_version_ue5 = 0

\* ObjectVersion::from_i32(file_version).ok_or(UnsupportedUE4Version(..))
resolve_ue4(file_version) ==
    LET m == ObjectVersion_from_i32(file_version)
    IN  IF m.some THEN [err |-> NoError, val |-> m.val]
        ELSE [err |-> UnsupportedUE4Version(file_version), val |-> 0]

resolve_ue5_M(file_version_ue5) ==
    LET m == ObjectVersionUE5_from_i32(file_version_ue5)
    IN  [err |-> NoError, val |-> m]
\* if file_version_ue5 != 0 { Some(from_i32(..).ok_or(..)?) } else { None }
resolve_ue5(file_version_ue5) ==
    IF file_version_ue5 # 0
    THEN LET m == ObjectVersionUE5_from_i32(file_version_ue5)
         IN  IF m.some THEN [err |-> NoError, val |-> m]
             ELSE [err |-> UnsupportedUE5Version(file_version_ue5), val |-> None]
    ELSE [err |-> NoError, val |-> None]

make_archive_M(file_version, file_version_ue5, file_licensee_version, legacy_version) ==
    [file_version |-> file_version, file_version_ue5 |-> file_version_ue5,
     file_licensee_version |-> legacy_version, legacy_version |-> legacy_version]
\* Ok(Archive { reader, file_version, file_version_ue5, .. })
make_archive(file_version, file_version_ue5, file_licensee_version, legacy_version) ==
    [file_version |-> file_version, file_version_ue5 |-> file_version_ue5,
     file_licensee_version |-> file_licensee_version, legacy_version |-> legacy_version]

Fail(e, r) == [err |-> e, archive |-> NoArchive, reader |-> r]

validate_versions_M(r, legacy_version, file_version, file_version_ue5, file_licensee_version) ==
    IF is_unversioned(file_version, file_licensee_version, file_version_ue5)
    THEN Fail(UnversionedAsset, r)
    ELSE IF file_version = 0 THEN Fail(UnsupportedUE4Version(file_version), r)
    ELSE LET u5 == resolve_ue5(file_version_ue5) IN
         IF u5.err # NoError THEN Fail(u5.err, r)
    ELSE LET u4 == resolve_ue4(file_version) IN
         IF u4.err # NoError THEN Fail(u4.err, r)
    ELSE [err |-> NoError, reader |-> r,
          archive |-> make_archive(u4.val, u5.val, file_licensee_version, legacy_version)]
\* the checks made once every field has been read
validate_versions(r, legacy_version, file_version, file_version_ue5, file_licensee_version) ==
    IF is_unversioned(file_version, file_licensee_version, file_version_ue5)
    THEN Fail(UnversionedAsset, r)
    ELSE IF file_version = 0 THEN Fail(UnsupportedUE4Version(file_version), r)
    ELSE LET u4 == resolve_ue4(file_version) IN
         IF u4.err # NoError THEN Fail(u4.err, r)
    ELSE LET u5 == resolve_ue5(file_version_ue5) IN
         IF u5.err # NoError THEN Fail(u5.err, r)
    ELSE [err |-> NoError, reader |-> r,
          archive |-> make_archive(u4.val, u5.val, file_licensee_version, legacy_version)]

\* let file_version_ue5 = if legacy_version <= -8 { read_le()? } else { 0 };
\* let file_licensee_version = read_le()?;  then the checks
read_versions(r3, legacy_version) ==
    IF ~can_read_le(r3) THEN Fail(ParseError, r3)
    ELSE LET file_version == read_le_i32(r3)
             r4 == advance(r3)
         IN
    IF has_ue5_field(legacy_version) /\ ~can_read_le(r4) THEN Fail(ParseError, r4)
    ELSE LET file_version_ue5 ==
                 IF has_ue5_field(legacy_version) THEN read_le_i32(r4) ELSE 0
             r5 == IF has_ue5_field(legacy_version) THEN advance(r4) ELSE r4
         IN
    IF ~can_read_le(r5) THEN Fail(ParseError, r5)
    ELSE validate_versions(advance(r5), legacy_version, file_version,
                           file_version_ue5, read_le_i32(r5))

\* pub fn new(mut reader: R) -> Result<Self>
ArchiveNew(r) ==
    IF ~can_read_le(r) THEN Fail(ParseError, r)
    ELSE LET magic == read_le_u32(r)
             r1 == advance(r)
         IN
    IF ~magic_matches(magic) THEN Fail(InvalidFile, r1)
    ELSE IF ~can_read_le(r1) THEN Fail(ParseError, r1)
    ELSE LET legacy_version == read_le_i32(r1)
             r2 == advance(r1)
         IN
    IF ~legacy_supported(legacy_version) THEN Fail(UnsupportedVersion(legacy_version), r2)
    ELSE IF ~can_read_le(r2) THEN Fail(ParseError, r2)    \* _legacy_ue3_version
    ELSE read_versions(advance(r2), legacy_version)

(* ------------------------ comparison queries --------------------------- *)
serialized_with_M(a, version) == a.file_version > version
\* pub fn serialized_with(&self, version: ObjectVersion) -> bool
serialized_with(a, version) == a.file_version >= version

\* pub fn serialized_without(&self, version: ObjectVersion) -> bool
serialized_without(a, version) == ~serialized_with(a, version)

(* ----------------------- the wrapped source R -------------------------- *)
\* R is an in-memory byte stream: a read fails only for lack of bytes (inside
\* read_le) and a seek only for a position before the start.
IoOk(n) == [ok |-> TRUE, n |-> n]
IoErr == [ok |-> FALSE, n |-> 0]
NoRet == [ok |-> TRUE, n |-> 0]

remaining(r) == IF Len(r.bytes) > r.pos THEN Len(r.bytes) - r.pos ELSE 0
\* self.reader.read(buf) with buf.len() = n: copies what is left, up to n
source_read(r, n) ==
    LET k == IF n < remaining(r) THEN n ELSE remaining(r)
    IN  [ret |-> IoOk(k), reader |-> [r EXCEPT !.pos = @ + k]]

seek_target(r, s) ==
    CASE s.whence = "Start" -> s.off
      [] s.whence = "Current" -> r.pos + s.off
      [] s.whence = "End" -> Len(r.bytes) + s.off
\* self.reader.seek(pos): a position before the start is an error
source_seek(r, s) ==
    IF seek_target(r, s) < 0 THEN [ret |-> IoErr, reader |-> r]
    ELSE [ret |-> IoOk(seek_target(r, s)),
          reader |-> [r EXCEPT !.pos = seek_target(r, s)]]

\* impl Read for Archive<R>: fn read -> self.reader.read(buf)
Archive_read(r, n) == source_read(r, n)

Archive_seek_M(r, s) ==
    IF source_seek(r, s).ret.ok THEN source_seek(r, s)
    ELSE [ret |-> IoOk(r.pos), reader |-> r]
\* impl Seek for Archive<R>: fn seek -> self.reader.seek(pos)
Archive_seek(r, s) == source_seek(r, s)

(* ------------------------------ inputs --------------------------------- *)
\* 4-byte fields a candidate file may carry, as little-endian bytes
MagicWords == { <<193, 131, 42, 158>>,      \* 0x9E2A83C1
                <<158, 42, 131, 193>>,      \* the magic, big-endian
                <<193, 131, 0, 0>> }        \* low half right, high half wrong
LegacyWords == { <<247, 255, 255, 255>>,    \* -9
                 <<248, 255, 255, 255>>,    \* -8
                 <<249, 255, 255, 255>>,    \* -7
                 <<250, 255, 255, 255>>,    \* -6
                 <<251, 255, 255, 255>>,    \* -5
                 <<0, 0, 0, 0>>,            \* 0
                 <<6, 0, 0, 0>> }           \* 6
UE3Words == { <<0, 0, 0, 0>>, <<96, 3, 0, 0>> }     \* 0, 864
PrimaryWords == { <<0, 0, 0, 0>>,           \* 0
                  <<214, 0, 0, 0>>,         \* 214, smallest known
                  <<10, 2, 0, 0>>,          \* 522, known
                  <<213, 0, 0, 0>>,         \* 213, unknown
                  <<255, 255, 255, 255>> }  \* -1, unknown
\* the fifth field: secondary version (legacy -8) or licensee version
FifthWords == { <<0, 0, 0, 0>>, <<5, 0, 0, 0>>,     \* 0, 5
                <<232, 3, 0, 0>>,                   \* 1000, known UE5
                <<100, 0, 0, 0>> }                  \* 100
\* the sixth field: licensee version (legacy -8) or payload
SixthWords == { <<0, 0, 0, 0>>, <<100, 0, 0, 0>>, <<255, 255, 255, 255>> }

Padding == [i \in 1..MaxStreamLen |-> 0]
Streams ==
    { SubSeq(m \o l \o u \o p \o f \o s \o Padding, 1, n) :
        m \in MagicWords, l \in LegacyWords, u \in UE3Words, p \in PrimaryWords,
        f \in FifthWords, s \in SixthWords, n \in 0..MaxStreamLen }

SeekArgs ==
    { [whence |-> "Start", off |-> n] : n \in 0..MaxStreamLen } \cup
    { [whence |-> "Current", off |-> d] : d \in {-4, 4} } \cup
    { [whence |-> "End", off |-> d] : d \in {-4, 0} }

(* ------------------------------- state --------------------------------- *)
VARIABLES reader,      \* the wrapped source: [bytes, pos]
          pc,          \* "new" before construction, then "ok" or "err"
          err,         \* the Error returned by Archive::new, or NoError
          archive,     \* the version fields of the constructed Archive
          op,          \* the last operation called
          arg,         \* its argument
          answer,      \* what the last comparison query returned
          io_ret,      \* what the last read / seek on the Archive returned
          src_ret      \* what the wrapped source returned to that call
vars == <<reader, pc, err, archive, op, arg, answer, io_ret, src_ret>>

NoArg == [whence |-> "none", off |-> 0]

Init ==
    /\ reader \in { [bytes |-> b, pos |-> 0] : b \in Streams }
    /\ pc = "new"
    /\ err = NoError
    /\ archive = NoArchive
    /\ op = "none"
    /\ arg = NoArg
    /\ answer = FALSE
    /\ io_ret = NoRet
    /\ src_ret = NoRet

New ==
    /\ pc = "new"
    /\ LET res == ArchiveNew(reader) IN
        /\ pc' = IF res.err = NoError THEN "ok" ELSE "err"
        /\ err' = res.err
        /\ archive' = res.archive
        /\ reader' = res.reader
    /\ op' = "new"
    /\ UNCHANGED <<arg, answer, io_ret, src_ret>>

SerializedWith ==
    /\ pc = "ok"
    /\ \E version \in ObjectVersion :
        /\ answer' = serialized_with(archive, version)
        /\ arg' = [whence |-> "version", off |-> version]
    /\ op' = "serialized_with"
    /\ io_ret' = NoRet /\ src_ret' = NoRet
    /\ UNCHANGED <<reader, pc, err, archive>>

SerializedWithout ==
    /\ pc = "ok"
    /\ \E version \in ObjectVersion :
        /\ answer' = serialized_without(archive, version)
        /\ arg' = [whence |-> "version", off |-> version]
    /\ op' = "serialized_without"
    /\ io_ret' = NoRet /\ src_ret' = NoRet
    /\ UNCHANGED <<reader, pc, err, archive>>

\* pub fn reader(&mut self) -> &mut R
Reader ==
    /\ pc = "ok"
    /\ op' = "reader"
    /\ arg' = NoArg /\ answer' = FALSE /\ io_ret' = NoRet /\ src_ret' = NoRet
    /\ UNCHANGED <<reader, pc, err, archive>>

Read ==
    /\ pc = "ok"
    /\ \E n \in 0..MaxReadLen :
        /\ io_ret' = Archive_read(reader, n).ret
        /\ reader' = Archive_read(reader, n).reader
        /\ src_ret' = source_read(reader, n).ret
        /\ arg' = [whence |-> "buf", off |-> n]
    /\ op' = "read"
    /\ answer' = FALSE
    /\ UNCHANGED <<pc, err, archive>>

Seek ==
    /\ pc = "ok"
    /\ \E s \in SeekArgs :
        /\ seek_target(reader, s) <= MaxStreamLen
        /\ io_ret' = Archive_seek(reader, s).ret
        /\ reader' = Archive_seek(reader, s).reader
        /\ src_ret' = source_seek(reader, s).ret
        /\ arg' = s
    /\ op' = "seek"
    /\ answer' = FALSE
    /\ UNCHANGED <<pc, err, archive>>

Next == New \/ SerializedWith \/ SerializedWithout \/ Reader \/ Read \/ Seek

Spec == Init /\ [][Next]_vars

(* ------------------- the header as the file carries it ----------------- *)
Bytes == reader.bytes
FieldI32(off) == read_le_i32([bytes |-> Bytes, pos |-> off])
Done == pc # "new"
MagicBytes == <<193, 131, 42, 158>>
MagicGood == Len(Bytes) >= 4 /\ SubSeq(Bytes, 1, 4) = MagicBytes
LegacyRaw == FieldI32(4)
LegacyGood == Len(Bytes) >= 8 /\ LegacyRaw \in {-8, -7, -6}
HeaderLen == IF LegacyRaw = -8 THEN 24 ELSE 20
\* magic and legacy version are valid and every field is present
Complete == MagicGood /\ LegacyGood /\ Len(Bytes) >= HeaderLen
PrimaryRaw == FieldI32(12)
SecondaryRaw == IF LegacyRaw = -8 THEN FieldI32(16) ELSE 0
LicenseeRaw == FieldI32(HeaderLen - 4)

(* ------------------------------- claims -------------------------------- *)
\* C1: a stream of at least 4 bytes whose first 4 bytes are not
\* C1 83 2A 9E fails with InvalidFile, whatever follows (or is missing).
C1_BadMagicInvalidFile ==
    (Done /\ Len(Bytes) >= 4 /\ SubSeq(Bytes, 1, 4) # MagicBytes)
        => (pc = "err" /\ err = InvalidFile)
C1_Witness ==
    /\ pc = "err" /\ err = InvalidFile
    /\ Len(Bytes) >= 8 /\ SubSeq(Bytes, 1, 4) = <<193, 131, 0, 0>>
    /\ LegacyRaw = -9

\* C2: with the correct magic, a legacy version outside [-8, -6] fails with
\* UnsupportedVersion carrying exactly that value; -8, -7, -6 never do.
C2_LegacyRange ==
    (Done /\ MagicGood /\ Len(Bytes) >= 8)
        => /\ LegacyRaw \notin (-8)..(-6)
                => (pc = "err" /\ err = UnsupportedVersion(LegacyRaw))
           /\ LegacyRaw \in (-8)..(-6) => err.kind # "UnsupportedVersion"
C2_Witness ==
    /\ pc = "err" /\ err = UnsupportedVersion(-5)
    /\ SubSeq(Bytes, 5, 8) = <<251, 255, 255, 255>>

\* C3: complete header, primary raw 0: UnversionedAsset iff secondary raw
\* (0 when legacy > -8) and licensee are both 0, else UnsupportedUE4Version(0).
C3_UnversionedVsPrimaryZero ==
    (Done /\ Complete /\ PrimaryRaw = 0)
        => /\ pc = "err"
           /\ (err = UnversionedAsset) <=> (SecondaryRaw = 0 /\ LicenseeRaw = 0)
           /\ ~(SecondaryRaw = 0 /\ LicenseeRaw = 0)
                => err = UnsupportedUE4Version(0)
C3_Witness ==
    /\ Complete /\ LegacyRaw = -8 /\ PrimaryRaw = 0
    /\ SecondaryRaw = 5 /\ LicenseeRaw = 0
    /\ err = UnsupportedUE4Version(0)

\* C4: with legacy -7 or -6 no secondary field is read: a 20-byte file is
\* enough, file_version_ue5 is None and construction leaves the source 16
\* bytes past the magic; only legacy -8 consumes 4 more.
C4_NoSecondaryRead ==
    /\ (Done /\ MagicGood /\ LegacyGood /\ LegacyRaw \in {-7, -6}
          /\ Len(Bytes) >= 20 /\ PrimaryRaw \in ObjectVersion) => pc = "ok"
    /\ (pc = "ok" /\ archive.legacy_version \in {-7, -6})
          => archive.file_version_ue5 = None
    /\ (pc = "ok" /\ op = "new")
          => reader.pos = 4 + (IF archive.legacy_version = -8 THEN 20 ELSE 16)
C4_Witness ==
    /\ pc = "ok" /\ op = "new" /\ archive.legacy_version = -7
    /\ Len(Bytes) = 20 /\ reader.pos = 20

\* C5: a constructed Archive has legacy_version in [-8, -6], a nonzero
\* member of ObjectVersion as file_version, and file_version_ue5 = Some(m)
\* only for legacy -8 with a nonzero secondary raw value resolving to m.
C5_ConstructedInvariant ==
    pc = "ok" =>
        /\ archive.legacy_version \in (-8)..(-6)
        /\ archive.legacy_version = LegacyRaw
        /\ archive.file_version \in ObjectVersion
        /\ archive.file_version # 0
        /\ archive.file_version_ue5.some =>
              /\ archive.legacy_version <= -8
              /\ FieldI32(16) # 0
              /\ archive.file_version_ue5.val = FieldI32(16)
              /\ FieldI32(16) \in ObjectVersionUE5
        /\ (archive.legacy_version \in {-7, -6} \/ SecondaryRaw = 0)
              => archive.file_version_ue5 = None
C5_Witness ==
    /\ pc = "ok" /\ archive.legacy_version = -8
    /\ archive.file_version_ue5 = Some(1000)

\* C6: serialized_with(v) answers file_version >= v, serialized_without(v)
\* answers the negation; an Archive answers true for its own version.
C6_Comparison ==
    /\ op = "serialized_with" => (answer <=> archive.file_version >= arg.off)
    /\ op = "serialized_without" => (answer <=> archive.file_version < arg.off)
    /\ (op = "serialized_with" /\ arg.off = archive.file_version) => answer
C6_Witness ==
    /\ op = "serialized_with" /\ arg.off = archive.file_version /\ answer
    /\ archive.file_version = 214

\* C7: once constructed, no operation changes the version fields; queries
\* leave the source alone and repeat their answer; read and seek return
\* exactly what the wrapped source returned and only move its position.
C7_Frame ==
    [][pc = "ok" =>
         /\ pc' = "ok" /\ archive' = archive /\ err' = err
         /\ reader'.bytes = reader.bytes
         /\ op' \in {"serialized_with", "serialized_without", "reader"}
               => reader' = reader
         /\ (op' = op /\ arg' = arg
               /\ op \in {"serialized_with", "serialized_without"})
               => answer' = answer
         /\ op' \in {"read", "seek"} => io_ret' = src_ret']_vars
C7_Witness ==
    /\ pc = "ok" /\ op = "seek" /\ ~io_ret.ok /\ ~src_ret.ok
    /\ archive.file_version = 522

\* C8: magic, legacy -6, any UE3 field, a known primary raw value and any
\* licensee value L construct an Archive with file_version_ue5 = None,
\* file_licensee_version = L, legacy_version = -6 and that primary version.
C8_LegacySixScenario ==
    /\ (Done /\ MagicGood /\ Len(Bytes) >= 20
          /\ SubSeq(Bytes, 5, 8) = <<250, 255, 255, 255>>
          /\ PrimaryRaw \in ObjectVersion)
        => /\ pc = "ok"
           /\ archive.file_version_ue5 = None
           /\ archive.file_licensee_version = FieldI32(16)
           /\ archive.legacy_version = -6
           /\ archive.file_version = PrimaryRaw
    /\ (Done /\ Len(Bytes) >= 20
          /\ SubSeq(Bytes, 1, 8) = <<193, 131, 42, 158, 250, 255, 255, 255>>
          /\ SubSeq(Bytes, 13, 20) = <<214, 0, 0, 0, 100, 0, 0, 0>>)
        => /\ pc = "ok"
           /\ archive = [file_version |-> 214, file_version_ue5 |-> None,
                         file_licensee_version |-> 100, legacy_version |-> -6]
C8_Witness ==
    /\ pc = "ok"
    /\ SubSeq(Bytes, 1, 20) = <<193, 131, 42, 158, 250, 255, 255, 255,
                                 96, 3, 0, 0, 214, 0, 0, 0, 100, 0, 0, 0>>
    /\ archive.file_licensee_version = 100

C10_FirstFailureWins ==
    Done =>
    /\ Len(Bytes) < 4 => err = ParseError
    /\ (Len(Bytes) >= 8 /\ ~MagicGood /\ LegacyRaw \notin (-8)..(-6))
          => err = InvalidFile
    /\ (MagicGood /\ Len(Bytes) < 8) => err = ParseError
    /\ (MagicGood /\ Len(Bytes) \in 8..11 /\ LegacyRaw \notin (-8)..(-6))
          => err = UnsupportedVersion(LegacyRaw)
    /\ (MagicGood /\ LegacyGood /\ Len(Bytes) < HeaderLen) => err = ParseError
    /\ (Complete /\ PrimaryRaw \notin ObjectVersion /\ PrimaryRaw # 0
          /\ SecondaryRaw \notin ObjectVersionUE5 /\ SecondaryRaw # 0)
          => err = UnsupportedUE4Version(PrimaryRaw)
C10_Witness ==
    /\ Complete /\ LegacyRaw = -8 /\ PrimaryRaw = 213 /\ SecondaryRaw = 5
    /\ err = UnsupportedUE4Version(213)
====
